---- MODULE Spec2Model ----
(***************************************************************************)
(* Run orchestration engine of tbench-runner: the task/run tables, the     *)
(* Celery queue of execute_harbor_run jobs, the worker and HTTP handlers   *)
(* that move runs through their lifecycle, and the status aggregation      *)
(* (_update_task_stats).                                                   *)
(*                                                                         *)
(* A handler is cut into steps at its db.commit() calls: what one session  *)
(* read before a commit of another session stays as it was read.           *)
(* Timestamps are abstracted to set (TRUE) / None (FALSE), except for      *)
(* task.completed_at in the section that keeps it as a clock reading.      *)
(***************************************************************************)
EXTENDS Integers, FiniteSets, Sequences, Bags, TLC

\* ---------------------------------------------------------------- bounds
MaxNumRuns == 2     \* num_runs a created task may ask for (1..MaxNumRuns)
MaxRunId == 3       \* run rows ever inserted (ids come from a sequence)
MaxQueue == 2       \* jobs waiting in the queue at one time
MaxDup == 1         \* duplicate deliveries the broker makes
MaxFaults == 1      \* backend calls that raise or hit a transient signature
MaxResets == 4      \* transient results, in the specification that counts a run's resets
MaxTime == 4        \* clock readings, where completed_at is kept as a time
PoolRuns == 5       \* runs of the task dispatched to the full worker pool
MaxDispatch == 46   \* runs of the task whose dispatch loop is followed job by job
MaxChain == 5       \* the same, in the one-worker retry-chain specification

\* ------------------------------------------------------ program constants
max_retries == 3            \* @celery_app.task(max_retries=3)
default_retry_delay == 10   \* @celery_app.task(default_retry_delay=10)
RETRY_COUNTDOWN == 10       \* self.retry(countdown=10)
BATCH_SIZE == 20
BATCH_DELAY_SECONDS == 1
worker_concurrency == 4     \* celery_app.conf.update(worker_concurrency=4)

TaskIds == {1}
RunIds == 1..MaxRunId
Procs == {"p1", "p2"}

\* TaskStatus / RunStatus (models.py)
T_PENDING == "pending"
T_RUNNING == "running"
T_COMPLETED == "completed"
T_FAILED == "failed"
T_CANCELLED == "cancelled"
TaskStatus == {T_PENDING, T_RUNNING, T_COMPLETED, T_FAILED, T_CANCELLED}

R_PENDING == "pending"
R_RUNNING == "running"
R_PASSED == "passed"
R_FAILED == "failed"
R_ERROR == "error"
R_TIMEOUT == "timeout"
RunStatus == {R_PENDING, R_RUNNING, R_PASSED, R_FAILED, R_ERROR, R_TIMEOUT}

\* The terminal statuses of the specification (section 4.1).
TerminalStatuses == {R_PASSED, R_FAILED, R_ERROR, R_TIMEOUT}

NoRow == [exists |-> FALSE]

VARIABLES
    tasks,      \* the tasks table: TaskIds -> row or NoRow
    runs,       \* the runs table: RunIds -> row or NoRow
    nextRunId,  \* the runs id sequence
    queue,      \* the Celery queue: a bag of jobs (job -> copies waiting)
    proc,       \* per worker / request thread: where it is in its handler
    dups,       \* duplicate deliveries made so far
    faults      \* backend calls that raised or were classified transient so far

vars == <<tasks, runs, nextRunId, queue, proc, dups, faults>>

\* ------------------------------------------------------------- the tables
\* Task(...) as create_task builds it (column defaults of models.Task).
NewTask(n) ==
    [exists |-> TRUE, status |-> T_PENDING, num_runs |-> n,
     total_runs |-> 0, passed_runs |-> 0, failed_runs |-> 0,
     started_at |-> FALSE, completed_at |-> FALSE]

\* Run(task_id=..., run_number=..., status=PENDING)
NewRun(t, num) ==
    [exists |-> TRUE, task_id |-> t, run_number |-> num, status |-> R_PENDING,
     started_at |-> FALSE, completed_at |-> FALSE]

\* db.query(Run).filter(Run.task_id == t): the ids of the task's run rows
RunsOf(rs, t) == {r \in DOMAIN rs : rs[r].exists /\ rs[r].task_id = t}

\* ------------------------------------------------------------- the queue
\* A job: the kwargs of execute_harbor_run, its request.retries and countdown.
Job(t, r, n, c) == [task_id |-> t, run_id |-> r, retries |-> n, countdown |-> c]

QueueLen(q) == BagCardinality(q)
Enqueue(q, j) == q (+) SetToBag({j})
Dequeue(q, j) == q (-) SetToBag({j})

\* ------------------------------------------------------ per-thread state
Idle(result) ==
    [pc |-> "idle", op |-> "none", task |-> 0, run |-> 0, retries |-> 0,
     cls |-> "none", existing |-> 0, snap |-> NoRow, calc |-> NoRow,
     ret |-> result]

\* ------------------------------------------------------------------ Init
Init ==
    /\ tasks = [t \in TaskIds |-> NoRow]
    /\ runs = [r \in RunIds |-> NoRow]
    /\ nextRunId = 1
    /\ queue = EmptyBag
    /\ proc = [p \in Procs |-> Idle("none")]
    /\ dups = 0
    /\ faults = 0

\* create_task (POST /api/tasks): num_runs validated ge=1
create_task(t, n) ==
    /\ ~tasks[t].exists
    /\ tasks' = [tasks EXCEPT ![t] = NewTask(n)]
    /\ UNCHANGED <<runs, nextRunId, queue, proc, dups, faults>>

\* ------------------------------------------------------------- startTask
\* Three handlers start a task: start_task (POST /start, creates the runs and
\* queues nothing), execute_task_async (POST /execute-async, .delay() per run)
\* and the Celery task execute_all_runs (apply_async with a stagger countdown).
StartOps == {"start_task", "execute_task_async", "execute_all_runs"}

\* a stagger that rounds the batch number up
StaggerDelay_RoundUp(i) == ((i + BATCH_SIZE - 1) \div BATCH_SIZE) * BATCH_DELAY_SECONDS

\* delay_seconds of the run at 0-based index i (execute_all_runs)
StaggerDelay(i) == (i \div BATCH_SIZE) * BATCH_DELAY_SECONDS

\* countdown the handler op gives the run at 0-based index i
DispatchCountdown(op, i) == IF op = "execute_all_runs" THEN StaggerDelay(i) ELSE 0

\* a dispatch that forgets the last run it created
DispatchJobs_DropLast(op, t, run_ids) ==
    IF op = "start_task" THEN <<>>
    ELSE [i \in 1..(Len(run_ids) - 1) |-> Job(t, run_ids[i], 0, DispatchCountdown(op, i - 1))]

\* the jobs a start handler queues for the run ids it created (none for the mock)
DispatchJobs(op, t, run_ids) ==
    IF op = "start_task" THEN <<>>
    ELSE [i \in 1..Len(run_ids) |-> Job(t, run_ids[i], 0, DispatchCountdown(op, i - 1))]

RECURSIVE EnqueueAll(_, _)
EnqueueAll(q, js) ==
    IF js = <<>> THEN q ELSE EnqueueAll(Enqueue(q, Head(js)), Tail(js))

\* a guard that also lets a COMPLETED task start again
StartGuard_Lax(row) == row.status \in {T_PENDING, T_COMPLETED}

\* The status guard every start handler applies to the row it read.
StartGuard(row) == row.status = T_PENDING

\* First half of a start handler: query the task, check the guard.
start_read(p, op, t) ==
    /\ proc[p].pc = "idle"
    /\ IF ~tasks[t].exists
       THEN proc' = [proc EXCEPT ![p] = Idle("not_found")]
       ELSE IF ~StartGuard(tasks[t])
       THEN proc' = [proc EXCEPT ![p] = Idle("already_started")]
       ELSE /\ nextRunId + tasks[t].num_runs - 1 <= MaxRunId
            /\ proc' = [proc EXCEPT ![p] =
                 [Idle("none") EXCEPT !.pc = "start_commit", !.op = op,
                                      !.task = t, !.snap = tasks[t]]]
    /\ UNCHANGED <<tasks, runs, nextRunId, queue, dups, faults>>

\* run ids the sequence hands to k inserted rows
NewRunIds(k) == [i \in 1..k |-> nextRunId + i - 1]

\* the run rows a start handler inserts: range(1, task.num_runs + 1)
CreatedRuns(t, k) ==
    [r \in RunIds |->
        IF r >= nextRunId /\ r < nextRunId + k
        THEN NewRun(t, r - nextRunId + 1) ELSE runs[r]]

\* Second half: status RUNNING, the runs, total_runs, commit; then the dispatch.
start_commit(p) ==
    LET t == proc[p].task
        k == proc[p].snap.num_runs
        js == DispatchJobs(proc[p].op, t, NewRunIds(k))
    IN /\ proc[p].pc = "start_commit"
       /\ nextRunId + k - 1 <= MaxRunId
       /\ QueueLen(queue) + Len(js) <= MaxQueue
       /\ tasks' = [tasks EXCEPT ![t].status = T_RUNNING,
                                 ![t].started_at = TRUE,
                                 ![t].total_runs = k]
       /\ runs' = CreatedRuns(t, k)
       /\ nextRunId' = nextRunId + k
       /\ queue' = EnqueueAll(queue, js)
       /\ proc' = [proc EXCEPT ![p] = Idle("started")]
       /\ UNCHANGED <<dups, faults>>

\* ------------------------------------------------------ the dispatch loop
\* The loop that follows the start handler's commit, one iteration at a time
\* (start_commit above takes it in one step).
DispatchOps == {"execute_task_async", "execute_all_runs"}

\* total_stagger_time of execute_all_runs for n queued runs
StaggerTotal(n) == ((n - 1) \div BATCH_SIZE) * BATCH_DELAY_SECONDS

\* what the handler returns after the loop
DispatchResult(op, run_ids) ==
    IF op = "execute_all_runs"
    THEN [runs_queued |-> Len(run_ids), stagger_seconds |-> StaggerTotal(Len(run_ids))]
    ELSE [runs_queued |-> Len(run_ids)]

\* The handler op at the head of its loop over run_ids.
Dispatching(op, t, run_ids) ==
    [(Idle("none") @@ [i |-> 0, run_ids |-> run_ids])
        EXCEPT !.pc = "dispatch", !.op = op, !.task = t]

\* The tables right after the start handler of a task of n runs committed.
InitDispatch ==
    \E n \in 1..MaxDispatch, op \in DispatchOps :
        /\ tasks = [t \in TaskIds |->
                      [NewTask(n) EXCEPT !.status = T_RUNNING, !.started_at = TRUE,
                                         !.total_runs = n]]
        /\ runs = [r \in 1..n |-> NewRun(1, r)]
        /\ nextRunId = n + 1
        /\ queue = EmptyBag
        /\ proc = [p \in Procs |->
                      IF p = "p1" THEN Dispatching(op, 1, [k \in 1..n |-> k])
                      ELSE Idle("none")]
        /\ dups = 0
        /\ faults = 0

\* an iteration that moves on without sending the job
dispatch_step_NoSend(p) ==
    /\ proc[p].pc = "dispatch"
    /\ proc[p].i < Len(proc[p].run_ids)
    /\ proc' = [proc EXCEPT ![p].i = proc[p].i + 1]
    /\ UNCHANGED <<tasks, runs, nextRunId, queue, dups, faults>>

\* One iteration: apply_async / delay of the run at index i.
dispatch_step(p) ==
    LET i == proc[p].i
    IN /\ proc[p].pc = "dispatch"
       /\ i < Len(proc[p].run_ids)
       /\ queue' = Enqueue(queue, Job(proc[p].task, proc[p].run_ids[i + 1], 0,
                                       DispatchCountdown(proc[p].op, i)))
       /\ proc' = [proc EXCEPT ![p].i = i + 1]
       /\ UNCHANGED <<tasks, runs, nextRunId, dups, faults>>

\* apply_async / delay raises (broker unreachable): nothing catches it inside
\* the loop, the handler ends with the exception.
dispatch_fail(p) ==
    /\ proc[p].pc = "dispatch"
    /\ proc[p].i < Len(proc[p].run_ids)
    /\ faults < MaxFaults
    /\ faults' = faults + 1
    /\ proc' = [proc EXCEPT ![p] =
                 Idle(IF proc[p].op = "execute_all_runs" THEN "raised" ELSE "error_500")
                    @@ [n |-> Len(proc[p].run_ids)]]
    /\ UNCHANGED <<tasks, runs, nextRunId, queue, dups>>

\* The loop is over: the handler returns its result.
dispatch_return(p) ==
    /\ proc[p].pc = "dispatch"
    /\ proc[p].i = Len(proc[p].run_ids)
    /\ proc' = [proc EXCEPT ![p] =
                 Idle("queued") @@ [n |-> Len(proc[p].run_ids), by |-> proc[p].op,
                                    result |-> DispatchResult(proc[p].op, proc[p].run_ids)]]
    /\ UNCHANGED <<tasks, runs, nextRunId, queue, dups, faults>>

\* ------------------------------------------------------ _update_task_stats
\* a completion test that counts PASSED runs only
completed_statuses_PassedOnly == {R_PASSED}

\* completed_statuses of _update_task_stats (tasks.py and main.py alike)
completed_statuses == {R_PASSED, R_FAILED, R_ERROR}
failed_statuses == {R_FAILED, R_ERROR}

\* an aggregation whose failed_runs counts FAILED runs only
update_task_stats_FailedOnly(rs, t, num_runs) ==
    LET mine == RunsOf(rs, t)
    IN [exists |-> TRUE,
        seen |-> [r \in DOMAIN rs |-> IF r \in mine THEN rs[r].status ELSE "none"],
        total_runs |-> Cardinality(mine),
        passed_runs |-> Cardinality({r \in mine : rs[r].status = R_PASSED}),
        failed_runs |-> Cardinality({r \in mine : rs[r].status = R_FAILED}),
        done |-> Cardinality({r \in mine : rs[r].status \in {R_PASSED, R_FAILED, R_ERROR}})
                    >= num_runs]

\* an aggregation whose completion test is strict (> instead of >=)
update_task_stats_Strict(rs, t, num_runs) ==
    LET mine == RunsOf(rs, t)
    IN [exists |-> TRUE,
        seen |-> [r \in DOMAIN rs |-> IF r \in mine THEN rs[r].status ELSE "none"],
        total_runs |-> Cardinality(mine),
        passed_runs |-> Cardinality({r \in mine : rs[r].status = R_PASSED}),
        failed_runs |-> Cardinality({r \in mine : rs[r].status \in {R_FAILED, R_ERROR}}),
        done |-> Cardinality({r \in mine : rs[r].status \in {R_PASSED, R_FAILED, R_ERROR}})
                    > num_runs]

\* What _update_task_stats computes from the run rows rs of task t, for a task
\* asking for num_runs runs: the three counters and the completion test
\* (seen: the status of each row the query returned).
update_task_stats(rs, t, num_runs) ==
    LET mine == RunsOf(rs, t)
        completed_runs == {r \in mine : rs[r].status \in completed_statuses}
        passed_runs == {r \in mine : rs[r].status = R_PASSED}
        failed_runs == {r \in mine : rs[r].status \in failed_statuses}
    IN [exists |-> TRUE,
        seen |-> [r \in DOMAIN rs |-> IF r \in mine THEN rs[r].status ELSE "none"],
        total_runs |-> Cardinality(mine),
        passed_runs |-> Cardinality(passed_runs),
        failed_runs |-> Cardinality(failed_runs),
        done |-> Cardinality(completed_runs) >= num_runs]

\* an aggregation that marks a finished task with failed runs FAILED
StatsAssigned_FailedTask(snap, calc) ==
    [snap EXCEPT !.total_runs = calc.total_runs,
                 !.passed_runs = calc.passed_runs,
                 !.failed_runs = calc.failed_runs,
                 !.status = IF calc.done
                            THEN (IF calc.failed_runs > 0 THEN T_FAILED ELSE T_COMPLETED)
                            ELSE @,
                 !.completed_at = IF calc.done THEN TRUE ELSE @]

\* The task object after _update_task_stats assigned to it: snap is the row the
\* session loaded (task.id refreshes the expired object), calc what it computed.
StatsAssigned(snap, calc) ==
    [snap EXCEPT !.total_runs = calc.total_runs,
                 !.passed_runs = calc.passed_runs,
                 !.failed_runs = calc.failed_runs,
                 !.status = IF calc.done THEN T_COMPLETED ELSE @,
                 !.completed_at = IF calc.done THEN TRUE ELSE @]

\* db.commit() of that object: the UPDATE carries the columns whose assigned
\* value differs from the loaded one (completed_at = utcnow() always does), and
\* leaves the other columns of the row as they are in the table.
StatsCommitted(row, snap, calc) ==
    LET new == StatsAssigned(snap, calc)
    IN [row EXCEPT
          !.total_runs = IF new.total_runs # snap.total_runs THEN new.total_runs ELSE @,
          !.passed_runs = IF new.passed_runs # snap.passed_runs THEN new.passed_runs ELSE @,
          !.failed_runs = IF new.failed_runs # snap.failed_runs THEN new.failed_runs ELSE @,
          !.status = IF new.status # snap.status THEN new.status ELSE @,
          !.completed_at = IF calc.done THEN TRUE ELSE @]

\* _update_task_stats up to its db.commit(): load the task, query its runs.
stats_read(p) ==
    LET t == proc[p].task
    IN /\ proc[p].pc \in {"stats", "exc_stats"}
       /\ tasks[t].exists
       /\ proc' = [proc EXCEPT ![p].pc = IF @ = "stats" THEN "stats_commit"
                                                        ELSE "exc_stats_commit",
                               ![p].snap = tasks[t],
                               ![p].calc = update_task_stats(runs, t, tasks[t].num_runs)]
       /\ UNCHANGED <<tasks, runs, nextRunId, queue, dups, faults>>

\* ------------------------------------------- _update_task_stats, with time
\* Where the value of completed_at matters it is kept as the clock reading
\* datetime.utcnow() returned (0: None) instead of set / None.
Times == 1..MaxTime

\* db.commit() of _update_task_stats at clock reading now: as StatsCommitted,
\* with task.completed_at = datetime.utcnow() when the completion test holds.
StatsCommittedAt(row, snap, calc, now) ==
    [StatsCommitted(row, snap, calc) EXCEPT
        !.completed_at = IF calc.done THEN now ELSE row.completed_at]

\* The result path's aggregation commit at clock reading now (the clock does
\* not run backwards), and the handler's return.
stats_commit_at(p, now) ==
    LET t == proc[p].task
    IN /\ proc[p].pc = "stats_commit"
       /\ now >= tasks[t].completed_at
       /\ tasks' = [tasks EXCEPT ![t] = StatsCommittedAt(@, proc[p].snap, proc[p].calc, now)]
       /\ proc' = [proc EXCEPT ![p] = Idle("ok")]
       /\ UNCHANGED <<runs, nextRunId, queue, dups, faults>>

\* Two workers have each committed the result of their run of a two-run task
\* (tasks.py 89-99) and are about to call _update_task_stats.
InitStamp ==
    \E a, b \in {R_PASSED, R_FAILED} :
        /\ tasks = [t \in TaskIds |->
                      [NewTask(2) EXCEPT !.status = T_RUNNING, !.started_at = TRUE,
                                         !.total_runs = 2, !.completed_at = 0]]
        /\ runs = [r \in RunIds |->
                     IF r = 1 THEN [NewRun(1, 1) EXCEPT !.status = a, !.started_at = TRUE,
                                                        !.completed_at = TRUE]
                     ELSE IF r = 2 THEN [NewRun(1, 2) EXCEPT !.status = b, !.started_at = TRUE,
                                                             !.completed_at = TRUE]
                     ELSE NoRow]
        /\ nextRunId = 3
        /\ queue = EmptyBag
        /\ proc = [p \in Procs |->
                     [Idle("none") EXCEPT !.pc = "stats", !.op = "execute_harbor_run",
                         !.task = 1, !.run = IF p = "p1" THEN 1 ELSE 2, !.cls = "final"]]
        /\ dups = 0
        /\ faults = 0

\* ---------------------------------------------------- execute_harbor_run
\* What the execution backend hands back: an exception (get_file or
\* run_task_sync raising), or a result whose logs hold or lack each of the
\* substrings the transient test looks for.
Outcomes ==
    [raised : {TRUE}] \cup
    [raised : {FALSE}, success : BOOLEAN, no_such_file : BOOLEAN,
     tests_sh : BOOLEAN, not_found : BOOLEAN, process_group : BOOLEAN]

\* run_single's result when the subprocess times out: success False, logs
\* "Task timed out after N seconds" (none of the transient signatures).
TimeoutResult ==
    [raised |-> FALSE, success |-> FALSE, no_such_file |-> FALSE,
     tests_sh |-> FALSE, not_found |-> FALSE, process_group |-> FALSE]

\* is_transient_error (Python: and binds tighter than or)
is_transient_error(o) ==
    \/ o.no_such_file
    \/ (o.tests_sh /\ o.not_found)
    \/ o.process_group

\* a retry branch that does not look at result["success"]
ShouldRetry_IgnoreSuccess(o, retries) ==
    is_transient_error(o) /\ retries < max_retries

\* a retry branch that still fires with the budget used up (<= instead of <)
ShouldRetry_PastBudget(o, retries) ==
    is_transient_error(o) /\ ~o.success /\ retries <= max_retries

\* the condition of the retry branch
ShouldRetry(o, retries) ==
    is_transient_error(o) /\ ~o.success /\ retries < max_retries

\* a guard that looks for the task only
WorkerStartGuard_TaskOnly(task, run) == task.exists

\* a guard that lets the worker go on from a PENDING run only
WorkerStartGuard_PendingOnly(task, run) ==
    task.exists /\ run.exists /\ run.status = R_PENDING

\* The condition under which the worker goes on after loading its rows.
WorkerStartGuard(task, run) == task.exists /\ run.exists

\* Delivery of job j to worker p and the handler up to its first commit.
\* dup: the broker keeps the message and will deliver it again.
harbor_start(p, j, dup) ==
    /\ proc[p].pc = "idle"
    /\ BagIn(j, queue)
    /\ IF dup THEN dups < MaxDup /\ dups' = dups + 1 /\ queue' = queue
              ELSE dups' = dups /\ queue' = Dequeue(queue, j)
    /\ IF ~WorkerStartGuard(tasks[j.task_id], runs[j.run_id])
       THEN /\ proc' = [proc EXCEPT ![p] = Idle("not_found")]
            /\ runs' = runs
       ELSE /\ runs' = [runs EXCEPT ![j.run_id].status = R_RUNNING,
                                    ![j.run_id].started_at = TRUE]
            /\ proc' = [proc EXCEPT ![p] =
                 [Idle("none") EXCEPT !.pc = "exec", !.op = "execute_harbor_run",
                     !.task = j.task_id, !.run = j.run_id, !.retries = j.retries]]
    /\ UNCHANGED <<tasks, nextRunId, faults>>

\* The message of the job a worker holds unacknowledged (task_acks_late): a
\* first delivery was sent with no delay, a retry with the 10 s countdown.
HeldJob(p) ==
    Job(proc[p].task, proc[p].run, proc[p].retries,
        IF proc[p].retries = 0 THEN 0 ELSE RETRY_COUNTDOWN)

\* The worker process dies during the backend call, after RUNNING was
\* committed: the message was not acknowledged (task_acks_late,
\* task_reject_on_worker_lost), so the broker queues it again.
worker_lost(p) ==
    /\ proc[p].pc = "exec"
    /\ proc[p].op = "execute_harbor_run"
    /\ dups < MaxDup
    /\ dups' = dups + 1
    /\ QueueLen(queue) < MaxQueue
    /\ queue' = Enqueue(queue, HeldJob(p))
    /\ proc' = [proc EXCEPT ![p] =
                 [Idle("lost") EXCEPT !.task = proc[p].task, !.run = proc[p].run]]
    /\ UNCHANGED <<tasks, runs, nextRunId, faults>>

\* The backend call raises: control goes to the except handler.
harbor_raise(p, limit) ==
    /\ proc[p].pc = "exec"
    /\ proc[p].op = "execute_harbor_run"
    /\ faults < limit
    /\ faults' = faults + 1
    /\ proc' = [proc EXCEPT ![p].pc = "exc"]
    /\ UNCHANGED <<tasks, runs, nextRunId, queue, dups>>

\* The transient branch: reset the run, commit, self.retry(countdown=10).
\* self.retry sends the job again with retries + 1 and raises celery's Retry,
\* an Exception raised inside the try block, so control goes to the handler.
\* (A commit on a deleted row raises StaleDataError before the retry.)
harbor_transient(p, o, limit) ==
    LET r == proc[p].run
        j == Job(proc[p].task, r, proc[p].retries + 1, RETRY_COUNTDOWN)
    IN /\ proc[p].pc = "exec"
       /\ proc[p].op = "execute_harbor_run"
       /\ ~o.raised
       /\ ShouldRetry(o, proc[p].retries)
       /\ faults < limit
       /\ faults' = faults + 1
       /\ IF runs[r].exists
          THEN /\ QueueLen(queue) < MaxQueue
               /\ runs' = [runs EXCEPT ![r].status = R_PENDING,
                                       ![r].started_at = FALSE]
               /\ queue' = Enqueue(queue, j)
          ELSE UNCHANGED <<runs, queue>>
       /\ proc' = [proc EXCEPT ![p].pc = "exc", ![p].cls = "retry"]
       /\ UNCHANGED <<tasks, nextRunId, dups>>

\* How a result that is not retried was classified (kept for the record: the
\* handler itself keeps only the branch it took).
Classified(o) ==
    IF is_transient_error(o) /\ ~o.success THEN "final_transient" ELSE "final"

\* run.status of a result that is not retried
FinalStatus(o) == IF o.success THEN R_PASSED ELSE R_FAILED

\* The result branch: write the result, commit; _update_task_stats follows.
harbor_finalize(p, o) ==
    LET r == proc[p].run
    IN /\ proc[p].pc = "exec"
       /\ proc[p].op = "execute_harbor_run"
       /\ ~o.raised
       /\ ~ShouldRetry(o, proc[p].retries)
       /\ IF runs[r].exists
          THEN /\ runs' = [runs EXCEPT ![r].status = FinalStatus(o),
                                       ![r].completed_at = TRUE]
               /\ proc' = [proc EXCEPT ![p].pc = "stats", ![p].cls = Classified(o)]
          ELSE /\ runs' = runs
               /\ proc' = [proc EXCEPT ![p].pc = "exc", ![p].cls = Classified(o)]
       /\ UNCHANGED <<tasks, nextRunId, queue, dups, faults>>

\* An exception after the result was committed, at the call of
\* _update_task_stats (SoftTimeLimitExceeded is raised wherever the task is
\* after soft_time_limit seconds): control goes to the except handler.
harbor_late_raise(p, limit) ==
    /\ proc[p].pc = "stats"
    /\ proc[p].op = "execute_harbor_run"
    /\ faults < limit
    /\ faults' = faults + 1
    /\ proc' = [proc EXCEPT ![p].pc = "exc"]
    /\ UNCHANGED <<tasks, runs, nextRunId, queue, dups>>

\* _update_task_stats' commit on the result path, and the handler's return
\* (execute_harbor_run returns its dict, execute_run its response).
stats_commit(p) ==
    LET t == proc[p].task
    IN /\ proc[p].pc = "stats_commit"
       /\ tasks' = [tasks EXCEPT ![t] = StatsCommitted(@, proc[p].snap, proc[p].calc)]
       /\ proc' = [proc EXCEPT ![p] = Idle("ok")]
       /\ UNCHANGED <<runs, nextRunId, queue, dups, faults>>

\* self.retry(exc=e) at the end of the except handler: with retries left the
\* job is sent again (default_retry_delay) and Retry is raised, else e is.
RetryJobs(t, r, retries) ==
    IF retries + 1 > max_retries THEN <<>>
    ELSE <<Job(t, r, retries + 1, default_retry_delay)>>

\* The except handler, first commit: the run, if still there, becomes ERROR.
\* Without the row the handler goes straight to self.retry(exc=e).
harbor_except(p) ==
    LET r == proc[p].run
    IN /\ proc[p].pc = "exc"
       /\ proc[p].op = "execute_harbor_run"
       /\ IF runs[r].exists
          THEN /\ runs' = [runs EXCEPT ![r].status = R_ERROR,
                                       ![r].completed_at = TRUE]
               /\ proc' = [proc EXCEPT ![p].pc = "exc_stats"]
          ELSE /\ runs' = runs
               /\ proc' = [proc EXCEPT ![p].pc = "exc_retry"]
       /\ UNCHANGED <<tasks, nextRunId, queue, dups, faults>>

\* The except handler's _update_task_stats commit.
harbor_except_commit(p) ==
    LET t == proc[p].task
    IN /\ proc[p].pc = "exc_stats_commit"
       /\ proc[p].op = "execute_harbor_run"
       /\ tasks' = [tasks EXCEPT ![t] = StatsCommitted(@, proc[p].snap, proc[p].calc)]
       /\ proc' = [proc EXCEPT ![p].pc = "exc_retry", ![p].snap = NoRow,
                               ![p].calc = NoRow]
       /\ UNCHANGED <<runs, nextRunId, queue, dups, faults>>

\* raise self.retry(exc=e), the handler's last statement.
harbor_except_retry(p) ==
    LET js == RetryJobs(proc[p].task, proc[p].run, proc[p].retries)
    IN /\ proc[p].pc = "exc_retry"
       /\ QueueLen(queue) + Len(js) <= MaxQueue
       /\ queue' = EnqueueAll(queue, js)
       /\ proc' = [proc EXCEPT ![p] = Idle(IF js = <<>> THEN "raised" ELSE "retry")]
       /\ UNCHANGED <<tasks, runs, nextRunId, dups, faults>>

\* a guard that also lets a RUNNING task be reset
RetryGuard_Lax(row) == row.status \in {T_COMPLETED, T_FAILED, T_RUNNING}

\* a reset that sends the deleted runs to the workers again
retry_task_Redispatch(p, t) ==
    /\ proc[p].pc = "idle"
    /\ IF ~tasks[t].exists
       THEN /\ proc' = [proc EXCEPT ![p] = Idle("not_found")]
            /\ UNCHANGED <<tasks, runs, queue>>
       ELSE IF ~(tasks[t].status \in {T_COMPLETED, T_FAILED})
       THEN /\ proc' = [proc EXCEPT ![p] = Idle("not_retryable")]
            /\ UNCHANGED <<tasks, runs, queue>>
       ELSE /\ runs' = [r \in RunIds |-> IF r \in RunsOf(runs, t) THEN NoRow ELSE runs[r]]
            /\ tasks' = [tasks EXCEPT ![t] = NewTask(@.num_runs)]
            /\ \E r \in RunsOf(runs, t) : queue' = Enqueue(queue, Job(t, r, 0, 0))
            /\ proc' = [proc EXCEPT ![p] = Idle("reset")]
    /\ UNCHANGED <<nextRunId, dups, faults>>

\* a reset that forgets the bulk delete and the counters
retry_task_KeepRuns(p, t) ==
    /\ proc[p].pc = "idle"
    /\ IF ~tasks[t].exists
       THEN /\ proc' = [proc EXCEPT ![p] = Idle("not_found")]
            /\ UNCHANGED <<tasks, runs>>
       ELSE IF ~(tasks[t].status \in {T_COMPLETED, T_FAILED})
       THEN /\ proc' = [proc EXCEPT ![p] = Idle("not_retryable")]
            /\ UNCHANGED <<tasks, runs>>
       ELSE /\ runs' = runs
            /\ tasks' = [tasks EXCEPT ![t].status = T_PENDING,
                                      ![t].started_at = FALSE,
                                      ![t].completed_at = FALSE]
            /\ proc' = [proc EXCEPT ![p] = Idle("reset")]
    /\ UNCHANGED <<nextRunId, queue, dups, faults>>

\* ------------------------------------------------------------ retry_task
\* The guard of retry_task on the row it read.
RetryGuard(row) == row.status \in {T_COMPLETED, T_FAILED}

\* retry_task (POST /retry): one transaction, no dispatch.
retry_task(p, t) ==
    /\ proc[p].pc = "idle"
    /\ IF ~tasks[t].exists
       THEN /\ proc' = [proc EXCEPT ![p] = Idle("not_found")]
            /\ UNCHANGED <<tasks, runs>>
       ELSE IF ~RetryGuard(tasks[t])
       THEN /\ proc' = [proc EXCEPT ![p] = Idle("not_retryable")]
            /\ UNCHANGED <<tasks, runs>>
       ELSE /\ runs' = [r \in RunIds |-> IF r \in RunsOf(runs, t) THEN NoRow ELSE runs[r]]
            /\ tasks' = [tasks EXCEPT ![t].status = T_PENDING,
                                      ![t].started_at = FALSE,
                                      ![t].completed_at = FALSE,
                                      ![t].total_runs = 0,
                                      ![t].passed_runs = 0,
                                      ![t].failed_runs = 0]
            /\ proc' = [proc EXCEPT ![p] = Idle("reset")]
    /\ UNCHANGED <<nextRunId, queue, dups, faults>>

\* ----------------------------------------------------------- delete_task
\* delete_task (DELETE /api/tasks/{task_id}): the task row and, by the cascade
\* of Task.runs, its run rows.
delete_task(p, t) ==
    /\ proc[p].pc = "idle"
    /\ IF ~tasks[t].exists
       THEN /\ proc' = [proc EXCEPT ![p] = Idle("not_found")]
            /\ UNCHANGED <<tasks, runs>>
       ELSE /\ runs' = [r \in RunIds |-> IF r \in RunsOf(runs, t) THEN NoRow ELSE runs[r]]
            /\ tasks' = [tasks EXCEPT ![t] = NoRow]
            /\ proc' = [proc EXCEPT ![p] = Idle("deleted")]
    /\ UNCHANGED <<nextRunId, queue, dups, faults>>

\* ----------------------------------------------- execute_run (synchronous)
\* The guard of execute_run and execute_run_async on the run row they read.
RunStartGuard(run) == run.status \in {R_PENDING}

\* Run.id == run_id, Run.task_id == task_id
RunOfTask(t, r) == runs[r].exists /\ runs[r].task_id = t

\* execute_run up to its first commit (also the tail of execute_one_run).
run_start(p, t, r) ==
    /\ \/ proc[p].pc = "idle"
       \/ proc[p].pc = "one_start" /\ t = proc[p].task /\ r = proc[p].run
    /\ IF ~tasks[t].exists \/ ~RunOfTask(t, r)
       THEN /\ proc' = [proc EXCEPT ![p] = Idle("not_found")]
            /\ runs' = runs
       ELSE IF ~RunStartGuard(runs[r])
       THEN /\ proc' = [proc EXCEPT ![p] = Idle("invalid_transition")]
            /\ runs' = runs
       ELSE /\ runs' = [runs EXCEPT ![r].status = R_RUNNING,
                                    ![r].started_at = TRUE]
            /\ proc' = [proc EXCEPT ![p] =
                 [Idle("none") EXCEPT !.pc = "exec", !.op = "execute_run",
                                      !.task = t, !.run = r]]
    /\ UNCHANGED <<tasks, nextRunId, queue, dups, faults>>

\* run_task_sync raises inside execute_run: the except block marks the run
\* ERROR on the session's object (StaleDataError, unhandled, without the row).
run_raise(p, limit) ==
    LET r == proc[p].run
    IN /\ proc[p].pc = "exec"
       /\ proc[p].op = "execute_run"
       /\ faults < limit
       /\ faults' = faults + 1
       /\ IF runs[r].exists
          THEN /\ runs' = [runs EXCEPT ![r].status = R_ERROR,
                                       ![r].completed_at = TRUE]
               /\ proc' = [proc EXCEPT ![p].pc = "exc_stats"]
          ELSE /\ runs' = runs
               /\ proc' = [proc EXCEPT ![p] = Idle("error_500")]
       /\ UNCHANGED <<tasks, nextRunId, queue, dups>>

\* run_task_sync returns inside execute_run: no retry branch here.
run_finalize(p, o) ==
    LET r == proc[p].run
    IN /\ proc[p].pc = "exec"
       /\ proc[p].op = "execute_run"
       /\ ~o.raised
       /\ IF runs[r].exists
          THEN /\ runs' = [runs EXCEPT ![r].status = FinalStatus(o),
                                       ![r].completed_at = TRUE]
               /\ proc' = [proc EXCEPT ![p].pc = "stats"]
          ELSE /\ runs' = runs
               /\ proc' = [proc EXCEPT ![p] = Idle("error_500")]
       /\ UNCHANGED <<tasks, nextRunId, queue, dups, faults>>

\* _update_task_stats' commit in execute_run's except block, then the 500.
run_except_commit(p) ==
    LET t == proc[p].task
    IN /\ proc[p].pc = "exc_stats_commit"
       /\ proc[p].op = "execute_run"
       /\ tasks' = [tasks EXCEPT ![t] = StatsCommitted(@, proc[p].snap, proc[p].calc)]
       /\ proc' = [proc EXCEPT ![p] = Idle("error_500")]
       /\ UNCHANGED <<runs, nextRunId, queue, dups, faults>>

\* ---------------------------------------------------------- execute_one_run
\* execute_one_run up to its insert: load the task, count its runs.
one_read(p, t) ==
    /\ proc[p].pc = "idle"
    /\ IF ~tasks[t].exists
       THEN proc' = [proc EXCEPT ![p] = Idle("not_found")]
       ELSE /\ nextRunId <= MaxRunId
            /\ proc' = [proc EXCEPT ![p] =
                 [Idle("none") EXCEPT !.pc = "one_insert", !.op = "execute_one_run",
                     !.task = t, !.snap = tasks[t],
                     !.existing = Cardinality(RunsOf(runs, t))]]
    /\ UNCHANGED <<tasks, runs, nextRunId, queue, dups, faults>>

\* First commit: the task starts if it was read PENDING; the new run row.
one_insert(p) ==
    LET t == proc[p].task
    IN /\ proc[p].pc = "one_insert"
       /\ nextRunId <= MaxRunId
       /\ tasks' = IF proc[p].snap.status = T_PENDING
                   THEN [tasks EXCEPT ![t].status = T_RUNNING, ![t].started_at = TRUE]
                   ELSE tasks
       /\ runs' = [runs EXCEPT ![nextRunId] = NewRun(t, proc[p].existing + 1)]
       /\ nextRunId' = nextRunId + 1
       /\ proc' = [proc EXCEPT ![p].pc = "one_total", ![p].run = nextRunId,
                               ![p].snap = NoRow]
       /\ UNCHANGED <<queue, dups, faults>>

\* Second commit: task.total_runs = existing_runs + 1; execute_run follows.
one_total(p) ==
    LET t == proc[p].task
    IN /\ proc[p].pc = "one_total"
       /\ tasks' = [tasks EXCEPT ![t].total_runs = proc[p].existing + 1]
       /\ proc' = [proc EXCEPT ![p].pc = "one_start", ![p].existing = 0]
       /\ UNCHANGED <<runs, nextRunId, queue, dups, faults>>

\* ------------------------------------------------------- execute_run_async
\* execute_run_async: the same guards as execute_run, then one .delay().
run_async(p, t, r) ==
    /\ proc[p].pc = "idle"
    /\ IF ~tasks[t].exists \/ ~RunOfTask(t, r)
       THEN /\ proc' = [proc EXCEPT ![p] = Idle("not_found")]
            /\ queue' = queue
       ELSE IF ~RunStartGuard(runs[r])
       THEN /\ proc' = [proc EXCEPT ![p] = Idle("invalid_transition")]
            /\ queue' = queue
       ELSE /\ QueueLen(queue) < MaxQueue
            /\ queue' = Enqueue(queue, Job(t, r, 0, 0))
            /\ proc' = [proc EXCEPT ![p] = Idle("queued")]
    /\ UNCHANGED <<tasks, runs, nextRunId, dups, faults>>

\* ------------------------------------------------------ the worker pool
\* The prefork pool of one Celery worker process (worker_concurrency slots),
\* and a request thread of the API server, which is a process of its own.
PoolSlots == {<<"worker", k>> : k \in 1..worker_concurrency}
HttpThreads == {<<"http", 1>>}

\* The tables and the queue right after execute_task_async committed and
\* dispatched a task of PoolRuns runs.
InitPool ==
    /\ tasks = [t \in TaskIds |->
                  [NewTask(PoolRuns) EXCEPT !.status = T_RUNNING, !.started_at = TRUE,
                                            !.total_runs = PoolRuns]]
    /\ runs = [r \in 1..PoolRuns |-> NewRun(1, r)]
    /\ nextRunId = PoolRuns + 1
    /\ queue = SetToBag({Job(1, r, 0, 0) : r \in 1..PoolRuns})
    /\ proc = [p \in PoolSlots \cup HttpThreads |-> Idle("none")]
    /\ dups = 0
    /\ faults = 0

\* ------------------------------------------------------- specifications
\* The worker side: jobs delivered to the workers P, at most fl backend
\* faults, redelivery of a kept message when D holds TRUE.
Worker(P, fl, D) ==
    \/ \E p \in P, j \in BagToSet(queue), dup \in D : harbor_start(p, j, dup)
    \/ \E p \in P : harbor_raise(p, fl)
    \/ \E p \in P, o \in Outcomes : harbor_transient(p, o, fl)
    \/ \E p \in P, o \in Outcomes : harbor_finalize(p, o)
    \/ \E p \in P : harbor_except(p)
    \/ \E p \in P : harbor_except_commit(p)
    \/ \E p \in P : harbor_except_retry(p)
    \/ \E p \in P : stats_read(p)
    \/ \E p \in P : stats_commit(p)

\* The handlers that create and start a task.
Starter(P, N) ==
    \/ \E t \in TaskIds, n \in N : create_task(t, n)
    \/ \E p \in P, op \in StartOps, t \in TaskIds : start_read(p, op, t)
    \/ \E p \in P : start_commit(p)

\* The other HTTP handlers.
Api(P, fl) ==
    \/ \E p \in P, t \in TaskIds : retry_task(p, t)
    \/ \E p \in P, t \in TaskIds, r \in RunIds : run_start(p, t, r)
    \/ \E p \in P : run_raise(p, fl)
    \/ \E p \in P, o \in Outcomes : run_finalize(p, o)
    \/ \E p \in P : run_except_commit(p)
    \/ \E p \in P : stats_read(p)
    \/ \E p \in P : stats_commit(p)
    \/ \E p \in P, t \in TaskIds : one_read(p, t)
    \/ \E p \in P : one_insert(p)
    \/ \E p \in P : one_total(p)
    \/ \E p \in P, t \in TaskIds, r \in RunIds : run_async(p, t, r)

\* The orchestration engine: two threads that start tasks and work the queue,
\* every message delivered once.
Next ==
    \/ Starter(Procs, 1..MaxNumRuns)
    \/ Worker(Procs, MaxFaults, {FALSE})

Spec == Init /\ [][Next]_vars

\* The same with a broker that may deliver a message again, one-run tasks.
NextDup ==
    \/ Starter({"p1"}, {1})
    \/ Worker(Procs, MaxFaults, BOOLEAN)

SpecDup == Init /\ [][NextDup]_vars

\* One worker follows the retry chain of a one-run task to its end, while an
\* HTTP thread may reset the task.
NextRetry ==
    \/ Starter({"p2"}, {1})
    \/ Worker({"p1"}, MaxChain, {FALSE})
    \/ \E t \in TaskIds : retry_task("p2", t)

SpecRetry == Init /\ [][NextRetry]_vars

\* One start, one worker with a backend that fails at most MaxFaults times,
\* and an HTTP thread that may reset the task.
NextRerun ==
    \/ Starter({"p2"}, 1..MaxNumRuns)
    \/ Worker({"p1"}, MaxFaults, {FALSE})
    \/ \E t \in TaskIds : retry_task("p2", t)

SpecRerun == Init /\ [][NextRerun]_vars

\* The same chain with no reset: one start, one worker.
NextChain ==
    \/ Starter({"p2"}, {1})
    \/ Worker({"p1"}, MaxChain, {FALSE})

SpecChain == Init /\ [][NextChain]_vars

\* One start and one worker whose task may be interrupted by an exception
\* after its result commit.
NextLate ==
    \/ Starter({"p1"}, 1..MaxNumRuns)
    \/ Worker({"p2"}, MaxFaults, {FALSE})
    \/ harbor_late_raise("p2", MaxFaults)

SpecLate == Init /\ [][NextLate]_vars

\* The HTTP handlers on one thread beside one worker.
NextApi ==
    \/ Starter({"p1"}, {1})
    \/ Worker({"p2"}, MaxFaults, {FALSE})
    \/ Api({"p1"}, MaxFaults)

SpecApi == Init /\ [][NextApi]_vars

\* The event loop (create_task, retry_task) beside one threadpool thread that
\* serves POST /api/tasks/{task_id}/execute-one.
NextHttp ==
    \/ \E t \in TaskIds, n \in 1..MaxNumRuns : create_task(t, n)
    \/ \E t \in TaskIds : retry_task("p1", t)
    \/ \E t \in TaskIds : one_read("p2", t)
    \/ one_insert("p2")
    \/ one_total("p2")
    \/ \E t \in TaskIds, r \in RunIds : run_start("p2", t, r)
    \/ \E o \in Outcomes : run_finalize("p2", o)
    \/ stats_read("p2")
    \/ stats_commit("p2")

SpecHttp == Init /\ [][NextHttp]_vars

\* Tasks are started and deleted while their jobs wait in the queue; each
\* delivery is followed up to the worker's first commit.
NextGone ==
    \/ Starter({"p1"}, 1..MaxNumRuns)
    \/ \E t \in TaskIds : delete_task("p1", t)
    \/ \E p \in Procs, j \in BagToSet(queue) : harbor_start(p, j, FALSE)

SpecGone == Init /\ [][NextGone]_vars

\* Start requests on two threads beside one worker.
NextStart ==
    \/ Starter(Procs, 1..MaxNumRuns)
    \/ Worker({"p2"}, MaxFaults, {FALSE})

SpecStart == Init /\ [][NextStart]_vars

\* One start request, then both workers on the task's runs.
NextFair ==
    \/ Starter({"p1"}, 1..MaxNumRuns)
    \/ Worker(Procs, MaxFaults, {FALSE})

\* The dispatch loop of one start, job by job.
NextDispatch ==
    \/ \E p \in Procs : dispatch_step(p)
    \/ \E p \in Procs : dispatch_fail(p)
    \/ \E p \in Procs : dispatch_return(p)

SpecDispatch == InitDispatch /\ [][NextDispatch]_vars

\* The pool's slots take jobs off the queue while a request thread serves
\* POST /api/tasks/{task_id}/runs/{run_id}/execute: each handler is followed
\* up to its backend call, which is in progress from then on (Harbor is slow).
NextPool ==
    \/ \E p \in PoolSlots, j \in BagToSet(queue) : harbor_start(p, j, FALSE)
    \/ \E p \in HttpThreads, t \in TaskIds, r \in DOMAIN runs : run_start(p, t, r)

SpecPool == InitPool /\ [][NextPool]_vars

\* The aggregations of two workers that finished the two runs of a task.
NextStamp ==
    \/ \E p \in Procs : stats_read(p)
    \/ \E p \in Procs, now \in Times : stats_commit_at(p, now)

SpecStamp == InitStamp /\ [][NextStamp]_vars

\* A one-run task whose backend never raises but may return transient
\* results: here faults counts the RUNNING -> PENDING resets of its run.
NextResets ==
    \/ Starter({"p1"}, {1})
    \/ \E p \in Procs, j \in BagToSet(queue) : harbor_start(p, j, FALSE)
    \/ \E p \in Procs, o \in Outcomes : harbor_transient(p, o, MaxResets)
    \/ \E p \in Procs, o \in Outcomes : harbor_finalize(p, o)
    \/ \E p \in Procs : harbor_except(p)
    \/ \E p \in Procs : harbor_except_commit(p)
    \/ \E p \in Procs : harbor_except_retry(p)
    \/ \E p \in Procs : stats_read(p)
    \/ \E p \in Procs : stats_commit(p)

SpecResets == Init /\ [][NextResets]_vars

\* One start of a one-run task, then both workers, either of which may die
\* during the backend call.
NextLost ==
    \/ Starter({"p1"}, {1})
    \/ Worker(Procs, MaxFaults, {FALSE})
    \/ \E p \in Procs : worker_lost(p)

\* The engine under fair scheduling: a thread inside a handler goes on to its
\* next statement, and the broker hands a waiting job to an idle worker.
Fairness ==
    /\ \A p \in Procs :
        /\ WF_vars(start_commit(p))
        /\ WF_vars(\E o \in Outcomes : harbor_finalize(p, o))
        /\ WF_vars(harbor_except(p))
        /\ WF_vars(harbor_except_commit(p))
        /\ WF_vars(harbor_except_retry(p))
        /\ WF_vars(stats_read(p))
        /\ WF_vars(stats_commit(p))
    /\ WF_vars(\E p \in Procs, j \in BagToSet(queue) : harbor_start(p, j, FALSE))

FairSpec == Init /\ [][NextFair]_vars /\ Fairness

FairLost == Init /\ [][NextLost]_vars /\ Fairness

\* ================================================================ claims
\* helpers of the claims
HarborOp == "execute_harbor_run"
Stepped(p) == proc'[p] # proc[p]
TerminalSeen(seen) == Cardinality({r \in RunIds : seen[r] \in TerminalStatuses})
CountRuns(t, S) == Cardinality({r \in RunsOf(runs, t) : runs[r].status \in S})
Quiescent == queue = EmptyBag /\ \A p \in Procs : proc[p].pc = "idle"
CreatedNow == {r \in RunIds : ~runs[r].exists /\ runs'[r].exists}

\* C1: a delivery of the execution job goes on to the backend only from a
\* PENDING run (the second of two deliveries is rejected and changes nothing),
\* so a run enters RUNNING once.
C1_StartOnlyFromPending ==
    [][\A p \in Procs :
        (proc[p].pc = "idle" /\ proc'[p].pc = "exec" /\ proc'[p].op = HarborOp)
            => runs[proc'[p].run].status = R_PENDING]_vars

\* C2: a run's status moves only PENDING -> RUNNING -> terminal, back only by
\* RUNNING -> PENDING (the error transition may also leave PENDING); a terminal
\* status never changes again.
C2_AllowedEdge(a, b) ==
    \/ a = b
    \/ a = R_PENDING /\ b \in {R_RUNNING, R_ERROR}
    \/ a = R_RUNNING /\ b \in TerminalStatuses \cup {R_PENDING}

C2_StatusMonotonic ==
    [][\A r \in RunIds :
        (runs[r].exists /\ runs'[r].exists)
            => C2_AllowedEdge(runs[r].status, runs'[r].status)]_vars

\* C3: once a worker has classified an outcome transient with retries left and
\* requeued the run, nothing it does until it returns writes a terminal status
\* to the run or changes the parent task.
C3_RetryLeavesRunInFlight ==
    [][\A p \in Procs :
        (proc[p].cls = "retry" /\ proc[p].retries < max_retries /\ Stepped(p))
            => /\ tasks' = tasks
               /\ \A r \in RunIds :
                    runs'[r] # runs[r] => runs'[r].status \notin TerminalStatuses]_vars

\* C4: with the retry count at the maximum, a result (transient signature or
\* not) is never requeued: the run row gets its final status, the worker goes
\* on to aggregate the parent task, queues nothing and returns normally.
C4_ExhaustedBudgetFinalizes ==
    [][\A p \in Procs :
        LET r == proc[p].run
            t == proc[p].task
        IN (proc[p].op = HarborOp /\ proc[p].retries = max_retries /\ Stepped(p))
            => /\ proc'[p].cls # "retry"
               /\ (proc[p].pc = "exec" /\ runs[r].exists /\ proc'[p].pc # "exc")
                    => /\ proc'[p].pc = "stats"
                       /\ runs'[r].status \in {R_PASSED, R_FAILED}
                       /\ proc'[p].cls = "final_transient" => runs'[r].status = R_FAILED
                       /\ runs'[r].completed_at
                       /\ queue' = queue
               /\ proc[p].pc = "stats"
                    => proc'[p].pc = "stats_commit" /\ queue' = queue
               /\ proc[p].pc = "stats_commit"
                    => /\ proc'[p] = Idle("ok")
                       /\ queue' = queue
                       /\ tasks'[t] = StatsCommitted(tasks[t], proc[p].snap, proc[p].calc)]_vars

C4_Witness ==
    \E p \in Procs :
        /\ proc[p].pc = "stats_commit"
        /\ proc[p].op = HarborOp
        /\ proc[p].retries = max_retries
        /\ proc[p].cls = "final_transient"
        /\ runs[proc[p].run].exists
        /\ runs[proc[p].run].status = R_FAILED
        /\ proc[p].calc.done

\* C5: for every task, passed_runs + failed_runs <= total_runs <= num_runs.
C5_CounterBounds ==
    \A t \in TaskIds :
        tasks[t].exists =>
            /\ tasks[t].passed_runs + tasks[t].failed_runs <= tasks[t].total_runs
            /\ tasks[t].total_runs <= tasks[t].num_runs

\* C6: an aggregation decides COMPLETED exactly when the runs it read that are
\* terminal number at least num_runs, and else keeps the status it loaded; the
\* counters it assigns are the PASSED and the FAILED/ERROR/TIMEOUT runs it read.
C6_CompletionRule ==
    \A p \in Procs :
        proc[p].pc \in {"stats_commit", "exc_stats_commit"} =>
            LET seen == proc[p].calc.seen
                new == StatsAssigned(proc[p].snap, proc[p].calc)
            IN /\ new.status = IF TerminalSeen(seen) >= proc[p].snap.num_runs
                               THEN T_COMPLETED ELSE proc[p].snap.status
               /\ new.passed_runs = Cardinality({r \in RunIds : seen[r] = R_PASSED})
               /\ new.failed_runs =
                    Cardinality({r \in RunIds : seen[r] \in TerminalStatuses \ {R_PASSED}})

\* an aggregation that read one PASSED run beside a RUNNING one and keeps the
\* task RUNNING, and one that read PASSED and ERROR and completes the task
C6_Witness ==
    /\ \E p \in Procs :
        /\ proc[p].pc = "exc_stats_commit"
        /\ proc[p].snap.num_runs = 2
        /\ \E a, b \in RunIds : proc[p].calc.seen[a] = R_PASSED /\ proc[p].calc.seen[b] = R_ERROR
        /\ proc[p].snap.status = T_RUNNING
        /\ StatsAssigned(proc[p].snap, proc[p].calc).status = T_COMPLETED
        /\ StatsAssigned(proc[p].snap, proc[p].calc).passed_runs = 1
        /\ StatsAssigned(proc[p].snap, proc[p].calc).failed_runs = 1

\* C7: when the task was started once, every worker has finished and no
\* backend call failed, the task's counters are the true counts over its runs
\* (no aggregation overwrote the task with counts from a stale read).
C7_CountersTrueAtRest ==
    \A t \in TaskIds :
        (/\ tasks[t].exists /\ Quiescent /\ faults = 0
         /\ Cardinality(RunsOf(runs, t)) = tasks[t].num_runs) =>
            /\ tasks[t].total_runs = Cardinality(RunsOf(runs, t))
            /\ tasks[t].passed_runs = CountRuns(t, {R_PASSED})
            /\ tasks[t].failed_runs = CountRuns(t, TerminalStatuses \ {R_PASSED})

\* C8: once every run of a started task is terminal, the task eventually is
\* COMPLETED (witness: the task completed by one worker while the other, which
\* read before the last run was finalized, has yet to commit its aggregation).
AllRunsTerminal(t) ==
    /\ tasks[t].exists
    /\ tasks[t].status = T_RUNNING
    /\ Cardinality(RunsOf(runs, t)) >= tasks[t].num_runs
    /\ \A r \in RunsOf(runs, t) : runs[r].status \in TerminalStatuses

C8_CompletionNotMissed ==
    \A t \in TaskIds : AllRunsTerminal(t) ~> (tasks[t].exists /\ tasks[t].status = T_COMPLETED)

C8_Witness ==
    \E t \in TaskIds :
        /\ tasks[t].exists
        /\ tasks[t].status = T_COMPLETED
        /\ tasks[t].num_runs = 2
        /\ tasks[t].completed_at
        /\ \A r \in RunsOf(runs, t) : runs[r].status \in TerminalStatuses
        /\ \E p \in Procs : proc[p].pc = "stats_commit" /\ ~proc[p].calc.done

\* C9: the commit of a start handler on a task with num_runs = k inserts
\* exactly k runs numbered 1..k, all PENDING, and leaves the task RUNNING with
\* total_runs = k.
C9_Creates(p) ==
    LET t == proc[p].task
        k == tasks[t].num_runs
    IN /\ Cardinality(CreatedNow) = k
       /\ {runs'[r].run_number : r \in CreatedNow} = 1..k
       /\ \A r \in CreatedNow : runs'[r] = NewRun(t, runs'[r].run_number)
       /\ \A r \in RunIds \ CreatedNow : runs'[r] = runs[r]
       /\ tasks'[t].status = T_RUNNING
       /\ tasks'[t].total_runs = k

\* ... and queues one job, not yet retried, for each run it created.
C9_Dispatches(p) ==
    /\ BagCardinality(queue') = BagCardinality(queue) + Cardinality(CreatedNow)
    /\ \A r \in CreatedNow :
        \E j \in BagToSet(queue') :
            /\ j.run_id = r /\ j.task_id = proc[p].task /\ j.retries = 0
            /\ CopiesIn(j, queue') = CopiesIn(j, queue) + 1

C9_StartCommitStep(p) == proc[p].pc = "start_commit" /\ proc'[p].pc = "idle"

\* C9 as claimed: every start handler does both.
C9_StartCreatesAndDispatches ==
    [][\A p \in Procs : C9_StartCommitStep(p) => C9_Creates(p) /\ C9_Dispatches(p)]_vars

\* C9 amended: execute_task_async and execute_all_runs do both; start_task
\* creates the runs and queues nothing.
C9_StartCreatesDispatchingHandlersDispatch ==
    [][\A p \in Procs :
        C9_StartCommitStep(p) =>
            /\ C9_Creates(p)
            /\ IF proc[p].op = "start_task" THEN queue' = queue ELSE C9_Dispatches(p)]_vars

C9_Witness ==
    \E p \in Procs, t \in TaskIds :
        /\ proc[p].ret = "started"
        /\ tasks[t].exists /\ tasks[t].num_runs = 2
        /\ tasks[t].status = T_RUNNING /\ tasks[t].total_runs = 2
        /\ {runs[r].run_number : r \in RunsOf(runs, t)} = {1, 2}
        /\ \A r \in RunsOf(runs, t) : runs[r].status = R_PENDING
        /\ \A r \in RunsOf(runs, t) : \E j \in BagToSet(queue) : j.run_id = r
        /\ BagCardinality(queue) = 2

\* C10: a start handler that reads a task whose status is not PENDING returns
\* the already-started error and changes no row and no queue; no handler gets
\* past the guard on such a task.
C10_StartRejectedOffPending ==
    [][\A p \in Procs :
        /\ \A op \in StartOps, t \in TaskIds :
            (start_read(p, op, t) /\ tasks[t].exists /\ tasks[t].status # T_PENDING)
                => proc'[p] = Idle("already_started")
        /\ (Stepped(p) /\ proc'[p].ret = "already_started")
                => UNCHANGED <<tasks, runs, nextRunId, queue>>
        /\ (proc[p].pc = "idle" /\ proc'[p].pc = "start_commit")
                => tasks[proc'[p].task].status = T_PENDING]_vars

C10_Witness ==
    \E p \in Procs, t \in TaskIds :
        /\ proc[p].ret = "already_started"
        /\ tasks[t].exists
        /\ tasks[t].status = T_COMPLETED

\* C11: a retry_task call that reads its task COMPLETED or FAILED leaves no run
\* of the task and leaves the task as it was created: PENDING, the three
\* counters 0, started_at and completed_at cleared, num_runs kept.
C11_RetryResets ==
    [][\A p \in Procs, t \in TaskIds :
        (/\ retry_task(p, t)
         /\ tasks[t].exists /\ tasks[t].status \in {T_COMPLETED, T_FAILED})
            => /\ RunsOf(runs', t) = {}
               /\ tasks'[t] = NewTask(tasks[t].num_runs)]_vars

\* a reset task whose runs had been created (the id sequence has moved on)
C11_Witness ==
    \E p \in Procs, t \in TaskIds :
        /\ proc[p].ret = "reset"
        /\ nextRunId > 1
        /\ tasks[t] = NewTask(1)
        /\ RunsOf(runs, t) = {}

\* C12: a retry_task call on a task that is neither COMPLETED nor FAILED
\* returns the not-retryable error and changes no row; no step deletes a run of
\* such a task or takes it back to PENDING.
C12_RetryRejected ==
    [][\A p \in Procs, t \in TaskIds :
        /\ (retry_task(p, t) /\ tasks[t].exists
                /\ tasks[t].status \notin {T_COMPLETED, T_FAILED})
              => /\ proc'[p] = Idle("not_retryable")
                 /\ UNCHANGED <<tasks, runs, nextRunId, queue>>
        /\ (tasks[t].exists /\ tasks[t].status \notin {T_COMPLETED, T_FAILED})
              => /\ RunsOf(runs, t) \subseteq RunsOf(runs', t)
                 /\ tasks'[t].status = T_PENDING => tasks[t].status = T_PENDING]_vars

\* a rejected retry of a RUNNING task whose run is there
C12_Witness ==
    \E p \in Procs, t \in TaskIds :
        /\ proc[p].ret = "not_retryable"
        /\ tasks[t].exists /\ tasks[t].status = T_RUNNING
        /\ RunsOf(runs, t) # {}


\* C13: execute_all_runs queues the run at 0-based index i with countdown
\* floor(i / 20) * 1: 0 for the indices 0..19, 1 for index 25, 2 for index 45,
\* whatever the number of runs of the dispatch.
C13_Delay(i) ==
    IF i \in 0..19 THEN 0
    ELSE IF i = 25 THEN 1
    ELSE IF i = 45 THEN 2
    ELSE (i \div 20) * 1

C13_StaggerDelay ==
    [][\A p \in Procs :
        (/\ proc[p].pc = "dispatch" /\ proc[p].op = "execute_all_runs"
         /\ proc'[p].pc = "dispatch" /\ proc'[p].i = proc[p].i + 1)
            => LET i == proc[p].i
               IN /\ C13_Delay(i) = (i \div BATCH_SIZE) * BATCH_DELAY_SECONDS
                  /\ queue' = queue (+) SetToBag({Job(proc[p].task, proc[p].run_ids[i + 1],
                                                       0, C13_Delay(i))})]_vars

\* a finished execute_all_runs dispatch of 46 runs: indices 0, 19, 25, 45
C13_Witness ==
    /\ \E p \in Procs : proc[p].ret = "queued" /\ proc[p].by = "execute_all_runs"
    /\ BagIn(Job(1, 1, 0, 0), queue)
    /\ BagIn(Job(1, 20, 0, 0), queue)
    /\ BagIn(Job(1, 26, 0, 1), queue)
    /\ BagIn(Job(1, 46, 0, 2), queue)

\* C14: of the jobs of one dispatch at most batch_size share a release delay,
\* and the stagger time reported is floor((N - 1) / batch_size) * batch_delay,
\* the largest delay given to a run.
C14_BatchWindow ==
    /\ \A d \in 0..MaxDispatch :
          Cardinality({j \in BagToSet(queue) : j.countdown = d}) <= BATCH_SIZE
    /\ \A p \in Procs :
          (proc[p].ret = "queued" /\ proc[p].by = "execute_all_runs") =>
              /\ proc[p].result.stagger_seconds = ((proc[p].n - 1) \div 20) * 1
              /\ \A j \in BagToSet(queue) : j.countdown <= proc[p].result.stagger_seconds
              /\ \E j \in BagToSet(queue) : j.countdown = proc[p].result.stagger_seconds

\* C15: when a dispatch has ended, every run but those whose enqueue failed
\* has its job in the queue.
C15_EnqueueFailureIsolated ==
    \A p \in Procs :
        (proc[p].pc = "idle" /\ proc[p].ret \in {"queued", "raised", "error_500"})
            => BagCardinality(queue) >= proc[p].n - faults

\* C16: a task moves PENDING -> RUNNING -> COMPLETED only; a COMPLETED task
\* stays COMPLETED, and no run of it becomes PENDING or RUNNING, unless the
\* step is the reset that takes it to PENDING with no run left.
C16_TaskMonotonic ==
    [][\A t \in TaskIds :
        /\ (tasks[t].exists /\ tasks[t].status = T_RUNNING)
              => tasks'[t].status \in {T_RUNNING, T_COMPLETED}
        /\ (tasks[t].exists /\ tasks[t].status = T_COMPLETED)
              => \/ tasks'[t].status = T_PENDING /\ RunsOf(runs', t) = {}
                 \/ /\ tasks'[t].status = T_COMPLETED
                    /\ \A r \in RunsOf(runs', t) :
                          runs'[r].status \in {R_PENDING, R_RUNNING}
                              => runs[r].exists /\ runs[r].status = runs'[r].status]_vars

\* C17: a run is reset from RUNNING to PENDING at most max_retries times in
\* all, whichever deliveries do it, and only by a job whose retry count is
\* below max_retries (under SpecResets faults is the number of resets of the
\* task's one run).
C17_ResetsBounded ==
    [][/\ faults' <= max_retries
       /\ \A r \in RunIds :
            (runs[r].exists /\ runs[r].status = R_RUNNING
                /\ runs'[r].exists /\ runs'[r].status = R_PENDING)
                => /\ faults' = faults + 1
                   /\ \E p \in Procs :
                        /\ proc[p].run = r /\ Stepped(p)
                        /\ proc[p].retries < max_retries]_vars

\* C18: a run whose backend execution times out ends TIMEOUT, not FAILED, and
\* TIMEOUT counts as a finished run for completion and as a failed run in
\* failed_runs.
C18_TimeoutEndsTimeout ==
    [][\A p \in Procs :
        (harbor_finalize(p, TimeoutResult) /\ runs[proc[p].run].exists)
            => /\ runs'[proc[p].run].status = R_TIMEOUT
               /\ R_TIMEOUT \in completed_statuses
               /\ R_TIMEOUT \in failed_statuses]_vars

\* C19: in every reachable state a task's total_runs is the number of run
\* records that currently exist for it.
C19_TotalRunsIsRowCount ==
    \A t \in TaskIds :
        tasks[t].exists => tasks[t].total_runs = Cardinality(RunsOf(runs, t))

\* C20: no two runs of a task share a run_number, and run numbers start at 1,
\* whatever the interleaving of the operations that create runs.
C20_RunNumbersUnique ==
    \A t \in TaskIds :
        \A r1 \in RunsOf(runs, t) :
            /\ runs[r1].run_number >= 1
            /\ \A r2 \in RunsOf(runs, t) :
                    runs[r1].run_number = runs[r2].run_number => r1 = r2

\* C21: at every moment the runs whose backend execution is in progress number
\* at most the worker pool size (worker_concurrency slots per worker process,
\* one process here).
Executing == {proc[p].run : p \in {q \in DOMAIN proc : proc[q].pc = "exec"}}

C21_ExecutingWithinPool == Cardinality(Executing) <= Cardinality(PoolSlots)

\* C22: an exception raised by the backend call is handled like a transient
\* outcome: with retries left, the worker that caught it writes no terminal
\* status to the run (it resets it to PENDING) and leaves the task as it is;
\* the run becomes ERROR only with the budget used up.
C22_InExceptAfterRaise(p) ==
    /\ proc[p].op = HarborOp
    /\ proc[p].cls = "none"
    /\ proc[p].pc \in {"exc", "exc_stats", "exc_stats_commit", "exc_retry"}

C22_RaiseHandledAsTransient ==
    [][\A p \in Procs :
        (C22_InExceptAfterRaise(p) /\ proc[p].retries < max_retries /\ Stepped(p))
            => /\ tasks' = tasks
               /\ \A r \in RunIds :
                    runs'[r] # runs[r] => runs'[r].status = R_PENDING]_vars

\* C23: after an aggregation of a task, total_runs is the number of its runs,
\* passed_runs the number of PASSED runs and failed_runs the number of FAILED,
\* ERROR or TIMEOUT runs, as the aggregation read them.
SeenCount(seen, S) == Cardinality({r \in DOMAIN seen : seen[r] \in S})
AggregationCommits(p) ==
    proc[p].pc \in {"stats_commit", "exc_stats_commit"} /\ Stepped(p)

C23_Counter(new, old, loaded, count) ==
    new = count \/ (count = loaded /\ new = old)

C24_AggregationIdempotent ==
    [][\A p \in Procs, now \in Times :
        LET t == proc[p].task
        IN (/\ stats_commit_at(p, now)
            /\ tasks[t].status = T_COMPLETED
            /\ proc[p].snap.status = T_COMPLETED
            /\ proc[p].calc = update_task_stats(runs, t, tasks[t].num_runs))
                => tasks'[t] = tasks[t]]_vars

\* C25: the retry decision depends on (outcome, retry count, maximum) alone:
\* the worker requeues the run exactly when the outcome is unsuccessful, its
\* logs match a transient signature and the retry count is below the maximum;
\* a successful outcome is never requeued, and an unsuccessful one without a
\* signature is written FAILED at once.
C25_Signature(o) ==
    o.no_such_file \/ (o.tests_sh /\ o.not_found) \/ o.process_group

C25_Transient(o, n) == ~o.success /\ C25_Signature(o) /\ n < max_retries

C25_RetryDecision ==
    [][\A p \in Procs, o \in Outcomes :
        LET r == proc[p].run
            n == proc[p].retries
        IN (/\ ~o.raised /\ proc[p].pc = "exec" /\ proc[p].op = HarborOp
            /\ runs[r].exists)
            => /\ harbor_transient(p, o, MaxChain)
                    => /\ C25_Transient(o, n)
                       /\ runs'[r].status = R_PENDING
                       /\ BagIn(Job(proc[p].task, r, n + 1, RETRY_COUNTDOWN), queue')
               /\ harbor_finalize(p, o)
                    => /\ ~C25_Transient(o, n)
                       /\ queue' = queue
                       /\ runs'[r].status = IF o.success THEN R_PASSED ELSE R_FAILED]_vars

\* the last retry the budget allows has been queued, and the worker that made
\* it had an unsuccessful outcome with a signature at retry count 2
C25_Witness ==
    \E p \in Procs :
        /\ proc[p].cls = "retry"
        /\ proc[p].retries = max_retries - 1
        /\ runs[proc[p].run].exists
        /\ runs[proc[p].run].status = R_PENDING
        /\ BagIn(Job(proc[p].task, proc[p].run, max_retries, RETRY_COUNTDOWN), queue)

\* C26: a transient classification enqueues exactly one new job for the run,
\* with retry count + 1 and the 10 s backoff, and the attempt that made it
\* puts no further job on the queue.
C26_OneJobPerTransient ==
    [][\A p \in Procs :
        LET r == proc[p].run
            n == proc[p].retries
        IN /\ (proc[p].pc = "exec" /\ proc'[p].cls = "retry" /\ runs[r].exists)
                => queue' = queue (+) SetToBag({Job(proc[p].task, r, n + 1, 10)})
           /\ (proc[p].cls = "retry" /\ Stepped(p)) => queue' = queue]_vars

\* C27: finalize is applied only to a RUNNING run: a result is written (PASSED
\* when outcome.success, else FAILED) only over RUNNING, so every change of a
\* run's status to PASSED or FAILED starts from RUNNING and no execution
\* overwrites the terminal result another execution of the run has written.
C27_FinalizeOnlyFromRunning ==
    [][/\ \A p \in Procs, o \in Outcomes :
            LET r == proc[p].run
            IN (harbor_finalize(p, o) /\ runs[r].exists)
                => /\ runs[r].status = R_RUNNING
                   /\ runs'[r].status = IF o.success THEN R_PASSED ELSE R_FAILED
       /\ \A r \in RunIds :
            (runs[r].exists /\ runs'[r].exists /\ runs'[r].status # runs[r].status
                /\ runs'[r].status \in {R_PASSED, R_FAILED})
                => runs[r].status = R_RUNNING]_vars

\* C28: the error transition is applied only to a run that is RUNNING or
\* PENDING: it sets ERROR and goes on to aggregate the task, and it never
\* replaces a PASSED or FAILED status already committed for the run.
C28_ErrorOnlyFromInFlight ==
    [][/\ \A p \in Procs :
            LET r == proc[p].run
            IN (harbor_except(p) /\ runs[r].exists)
                => /\ runs[r].status \in {R_RUNNING, R_PENDING}
                   /\ runs'[r].status = R_ERROR
                   /\ proc'[p].pc = "exc_stats"
       /\ \A r \in RunIds :
            (runs[r].exists /\ runs'[r].exists /\ runs'[r].status = R_ERROR)
                => runs[r].status \in {R_RUNNING, R_PENDING, R_ERROR}]_vars

\* C29: a worker that dies after committing RUNNING for a run, with the queue
\* delivering the job again, does no harm: the run eventually has a terminal
\* status and its task eventually is COMPLETED (no run stays RUNNING forever).
LostWith(r) ==
    /\ runs[r].exists
    /\ \E p \in Procs : proc[p].pc = "idle" /\ proc[p].ret = "lost" /\ proc[p].run = r

C29_RedeliveryCompletes ==
    \A r \in RunIds :
        /\ LostWith(r) ~> (runs[r].exists /\ runs[r].status \in TerminalStatuses)
        /\ LostWith(r) ~> (\E t \in TaskIds : runs[r].exists /\ runs[r].task_id = t
                                /\ tasks[t].status = T_COMPLETED)

\* the run a dead worker left RUNNING was finished by the second delivery
C29_Witness ==
    \E p \in Procs, t \in TaskIds :
        /\ dups = 1 /\ faults = 0
        /\ proc[p].ret = "ok"
        /\ tasks[t].exists /\ tasks[t].status = T_COMPLETED
        /\ \A r \in RunsOf(runs, t) : runs[r].status \in {R_PASSED, R_FAILED}
        /\ RunsOf(runs, t) # {}

\* C30: every run a start created reaches a terminal status after at most
\* max_retries + 1 executions. Under SpecResets the task has one run, each
\* transient result ended one execution of it, and a worker inside the
\* backend call is in one more: together no more than max_retries + 1.
ExecutionsBegun ==
    faults + Cardinality({p \in Procs : proc[p].pc = "exec"})

C30_ExecutionsBounded == ExecutionsBegun <= max_retries + 1

\* C31: a run has one writer at a time: no two threads are inside the backend
\* call for the same run, both having passed the start step.
C31_SingleWriter ==
    \A p, q \in Procs :
        (p # q /\ proc[p].pc = "exec" /\ proc[q].pc = "exec")
            => proc[p].run # proc[q].run

\* C32: of two concurrent starts of a PENDING task only one gets past the
\* status guard: the commit of a dispatching start handler never leaves the
\* task with more than num_runs runs, nor with a run number used twice.
C32_OneStartWins ==
    [][\A p \in Procs :
        LET t == proc[p].task
        IN (C9_StartCommitStep(p) /\ proc[p].op \in DispatchOps)
            => /\ Cardinality(RunsOf(runs', t)) <= tasks'[t].num_runs
               /\ \A a, b \in RunsOf(runs', t) :
                    runs'[a].run_number = runs'[b].run_number => a = b]_vars

\* C33: when execute_all_runs or execute_task_async returns its result, every
\* run the start created has exactly one job in the queue, no job is there
\* twice, and runs_queued in the result is the task's num_runs.
C33_JobsOf(r) == {j \in BagToSet(queue) : j.run_id = r}

C33_OneJobPerCreatedRun ==
    \A p \in Procs :
        (proc[p].pc = "idle" /\ proc[p].ret = "queued") =>
            /\ \A r \in RunsOf(runs, 1) :
                  /\ Cardinality(C33_JobsOf(r)) = 1
                  /\ \A j \in C33_JobsOf(r) :
                        CopiesIn(j, queue) = 1 /\ j.task_id = 1 /\ j.retries = 0
            /\ BagCardinality(queue) = tasks[1].num_runs
            /\ proc[p].result.runs_queued = tasks[1].num_runs

C33_Witness ==
    \E p \in Procs :
        /\ proc[p].pc = "idle" /\ proc[p].ret = "queued"
        /\ proc[p].by = "execute_task_async"
        /\ tasks[1].num_runs = BATCH_SIZE + 3
        /\ Cardinality(RunsOf(runs, 1)) = BATCH_SIZE + 3
        /\ BagCardinality(queue) = BATCH_SIZE + 3
\* C34: whenever a task is COMPLETED every run of it is terminal and
\* passed_runs + failed_runs = num_runs, so the counters a client reads from a
\* COMPLETED task are final.
C34_CompletedIsFinal ==
    \A t \in TaskIds :
        (tasks[t].exists /\ tasks[t].status = T_COMPLETED) =>
            /\ \A r \in RunsOf(runs, t) : runs[r].status \in TerminalStatuses
            /\ tasks[t].passed_runs + tasks[t].failed_runs = tasks[t].num_runs
\* C35: a PENDING task has no runs, freshly created or reset by retry_task,
\* whatever run-creating handler is interleaved with it.
C35_PendingHasNoRuns ==
    \A t \in TaskIds :
        (tasks[t].exists /\ tasks[t].status = T_PENDING) => RunsOf(runs, t) = {}
\* C36: once retry_task has reset the task to PENDING, a worker job left over
\* from the runs it deleted changes nothing of the task: no step of such a job
\* writes the task's status or counters.
C36_StaleJobIsInert ==
    [][\A p \in Procs :
        (/\ proc[p].op = HarborOp /\ Stepped(p)
         /\ tasks[proc[p].task].exists
         /\ tasks[proc[p].task].status = T_PENDING)
            => LET t == proc[p].task
               IN /\ tasks'[t].status = tasks[t].status
                  /\ tasks'[t].total_runs = tasks[t].total_runs
                  /\ tasks'[t].passed_runs = tasks[t].passed_runs
                  /\ tasks'[t].failed_runs = tasks[t].failed_runs]_vars
\* C37: a worker job delivered for a task or a run that is no longer in the
\* tables returns the not-found result: the delivery leaves every task and
\* run as it was, takes its message off the queue and queues no retry.
C37_MissingRowIsNotFound ==
    [][\A p \in Procs, j \in BagToSet(queue) :
        (/\ harbor_start(p, j, FALSE)
         /\ ~tasks[j.task_id].exists \/ ~runs[j.run_id].exists)
            => /\ tasks' = tasks
               /\ runs' = runs
               /\ queue' = Dequeue(queue, j)
               /\ proc'[p] = Idle("not_found")]_vars

C37_Witness ==
    \E p \in Procs, r \in RunIds :
        /\ proc[p].pc = "idle" /\ proc[p].ret = "not_found"
        /\ ~runs[r].exists /\ r < nextRunId
        /\ \A j \in BagToSet(queue) : j.run_id # r
\* C38: retry_task does not dispatch: its reset leaves the queue as it was and
\* the task with no run, and while the task stays PENDING no worker begins an
\* execution for it.
C38_RetryDoesNotDispatch ==
    [][/\ \A p \in Procs, t \in TaskIds :
            (/\ retry_task(p, t)
             /\ tasks[t].exists /\ tasks[t].status \in {T_COMPLETED, T_FAILED})
                => queue' = queue /\ RunsOf(runs', t) = {}
       /\ \A p \in Procs :
            (proc[p].pc # "exec" /\ proc'[p].pc = "exec")
                => tasks[proc'[p].task].status # T_PENDING]_vars

\* the task has been reset while a job of a deleted run waits in the queue
C38_Witness ==
    \E p \in Procs, t \in TaskIds :
        /\ proc[p].pc = "idle" /\ proc[p].ret = "reset"
        /\ tasks[t].exists /\ tasks[t].status = T_PENDING
        /\ RunsOf(runs, t) = {}
        /\ \E j \in BagToSet(queue) : j.task_id = t /\ ~runs[j.run_id].exists
\* C39: the timestamps of a run agree with its status: a PENDING run has no
\* started_at, and completed_at is set exactly when the status is terminal.
C39_TimestampsAgree ==
    \A r \in RunIds :
        runs[r].exists =>
            /\ runs[r].status = R_PENDING => ~runs[r].started_at
            /\ runs[r].completed_at <=> runs[r].status \in TerminalStatuses
\* C40: a task is only ever PENDING, RUNNING or COMPLETED: no step writes
\* FAILED or CANCELLED, so every reset retry_task performs starts from a
\* COMPLETED task.
C40_ReachableTaskStatuses ==
    [][\A t \in TaskIds :
        /\ tasks'[t].exists => tasks'[t].status \in {T_PENDING, T_RUNNING, T_COMPLETED}
        /\ \A p \in Procs :
              (retry_task(p, t) /\ proc'[p].ret = "reset")
                  => tasks[t].status = T_COMPLETED]_vars

\* a task that was reset from COMPLETED and has been started again
C40_Witness ==
    \E p \in Procs, t \in TaskIds :
        /\ proc[p].pc = "idle" /\ proc[p].ret = "started"
        /\ tasks[t].exists /\ tasks[t].status = T_RUNNING
        /\ \A r \in RunsOf(runs, t) : r > tasks[t].num_runs
        /\ RunsOf(runs, t) # {}
====
